---- MODULE Spec2Model ----
(***************************************************************************)
(* Money Manager client: the dual-mode persistence layer.                  *)
(*                                                                         *)
(* State is the browser's localStorage (token, currentUser, backendMode,   *)
(* users and the per-user collections), the React flag isAuthenticated,    *)
(* the axios calls in flight and the clock read by Date.now().             *)
(* Every asynchronous handler is two steps: the synchronous prefix up to   *)
(* its await (the call is issued, or the handler finishes locally) and     *)
(* the resumption when the response arrives (response interceptor first,   *)
(* then the handler's own try/catch).                                      *)
(***************************************************************************)
EXTENDS Integers, Sequences, FiniteSets, TLC

\* ------------------------------------------------------------------ bounds
MaxClock == 2        \* Date.now() takes the values 1..MaxClock
MaxItems == 1        \* a local collection is written up to this length
MaxKeys == 1         \* local collections that are non-empty at the same time
MaxUsers == 1        \* the local users collection grows up to this length
MaxCalls == 1        \* axios calls in flight at the same time
StoreItems == 2      \* length of a local collection in SpecStore
StoreKeys == 2       \* non-empty local collections in SpecStore
StoreUsers == 2      \* local users in SpecStore
RepoItems == 2       \* category entities the server holds for the profile

Slots == 1..MaxCalls

\* the three list operations loadUserData awaits together, each with an
\* axios call of its own
AggregateParts == {"incomes", "expenses", "categories"}
PartSlot(kind) ==
    MaxCalls + (CASE kind = "incomes" -> 1 [] kind = "expenses" -> 2 [] OTHER -> 3)
PartSlots == {PartSlot(k) : k \in AggregateParts}

\* ------------------------------------------------------------------ values
\* ids are a prefix and a number: 'inc_' + Date.now(), 'user_' + Date.now()
MkId(p, n) == [p |-> p, n |-> n]
NoId == MkId("", 0)

\* localStorage.getItem('token') === null
NULL_TOKEN == [kind |-> "null", n |-> 0]
\* the token a server response carries
JWT == [kind |-> "jwt", n |-> 0]

\* localStorage.getItem('currentUser') === null
NULL_USER == [id |-> MkId("null", 0), email |-> "", username |-> ""]

Emails == {"a@x"}
Passwords == {"secret1", "secret2"}
ShortPassword == "abc"
Usernames == {"neo"}

\* email.split('@')[0]
LocalPart(e) == CASE e = "a@x" -> "a" [] e = "b@x" -> "b" [] OTHER -> e

\* password.length
PasswordLength(p) == IF p = ShortPassword THEN 3 ELSE IF p = "" THEN 0 ELSE 7

\* the user object the server puts in an authentication response
ServerUser(e) ==
    [id |-> MkId("srv", IF e = "a@x" THEN 1 ELSE 2), email |-> e, username |-> LocalPart(e)]

\* ---------------------------------------------------------- axios outcomes
\* what axios hands to the response interceptor: code, message, HTTP status
\* (status 0: error.response is undefined)
OK_RESPONSE   == [code |-> "", message |-> "", status |-> 200]
ERR_NETWORK   == [code |-> "ERR_NETWORK", message |-> "Network Error", status |-> 0]
ECONNABORTED  == [code |-> "ECONNABORTED", message |-> "timeout exceeded", status |-> 0]
HttpError(st) == [code |-> IF st >= 500 THEN "ERR_BAD_RESPONSE" ELSE "ERR_BAD_REQUEST",
                  message |-> "Request failed", status |-> st]
\* a plain Error thrown by the handler itself: no code, no response
PlainError(m) == [code |-> "", message |-> m, status |-> 0]

RejectedStatuses == {400, 403, 500}
Outcomes == {OK_RESPONSE, ERR_NETWORK, ECONNABORTED, HttpError(401)}
                \cup {HttpError(st) : st \in RejectedStatuses}

hasResponse(err) == err.status # 0

\* the three kinds of the failure taxonomy
NetworkUnavailable(o) == o \in {ERR_NETWORK, ECONNABORTED}
Unauthorized(o) == o.status = 401
Rejected(o) == hasResponse(o) /\ o.status >= 400 /\ o.status # 401

\* --------------------------------------------------------------- variables
VARIABLES
    token,            \* localStorage 'token'
    currentUser,      \* localStorage 'currentUser'
    backendMode,      \* localStorage 'backendMode': "absent", "online", "offline"
    users,            \* localStorage 'users': sequence of credential records
    collections,      \* localStorage '<kind>_<userId>': key -> sequence
    isAuthenticated,  \* React state of App
    calls,            \* slot -> axios call in flight
    now,              \* Date.now()
    aggregate,        \* the Promise.all of loadUserData and what it delivered
    categoryRepository, \* the server's category entities of the profile
    created,          \* history: the category last created and not yet listed
    last              \* the step just taken and what its caller received

vars == <<token, currentUser, backendMode, users, collections,
          isAuthenticated, calls, now, aggregate, categoryRepository, created, last>>

session == [token |-> token, currentUser |-> currentUser, backendMode |-> backendMode]

\* ------------------------------------------------------------ mode helpers
\* a mode check that never finds the flag
isOfflineMode_never(mode) == FALSE

isOfflineMode(mode) == mode = "offline"

ModeName(mode) == IF isOfflineMode(mode) THEN "local" ELSE "remote"

\* ------------------------------------------------------------ local store
\* the stored user ignored: every key is the sentinel's
getUserId_sentinel(user) == [id |-> MkId("offline_user", 0), email |-> ""]

\* userData.id || userData.email of the stored user, 'offline_user' without one
getUserId(user) ==
    IF user # NULL_USER
    THEN IF user.id # NoId THEN [id |-> user.id, email |-> ""]
                           ELSE [id |-> NoId, email |-> user.email]
    ELSE [id |-> MkId("offline_user", 0), email |-> ""]

Key(kind, user) == [kind |-> kind, uid |-> getUserId(user)]

\* JSON.parse(localStorage.getItem(key) || '[]')
getItem(coll, k) == IF k \in DOMAIN coll THEN coll[k] ELSE << >>

\* localStorage.setItem(key, JSON.stringify(v)); every read goes through
\* getItem, which cannot tell a missing key from a stored '[]', so a stored
\* empty list is kept as a missing key
setItem(coll, k, v) ==
    IF v = << >>
    THEN [x \in DOMAIN coll \ {k} |-> coll[x]]
    ELSE [x \in DOMAIN coll \cup {k} |-> IF x = k THEN v ELSE coll[x]]

RECURSIVE filterOut(_, _)
\* list.filter(x => x.id !== id)
filterOut(list, id) ==
    IF list = << >> THEN << >>
    ELSE IF Head(list).id = id THEN filterOut(Tail(list), id)
         ELSE <<Head(list)>> \o filterOut(Tail(list), id)

\* ---------------------------------------------------------------- payloads
\* the argument of a create: the fields of a transaction and of a category
NoItem == [name |-> "", categoryId |-> 0, amount |-> 0, date |-> "", type |-> "", color |-> ""]

Salary == [NoItem EXCEPT !.name = "Salary", !.categoryId = 1, !.amount = 5000, !.date = "2025-01-01"]

\* the valid transaction of the create scenario, and one input per missing field
TxInputs == {Salary, [Salary EXCEPT !.categoryId = 0], [Salary EXCEPT !.amount = 0],
             [Salary EXCEPT !.date = ""]}

CategoryInputs == {[NoItem EXCEPT !.name = "Food", !.type = "expense", !.color = "#ef4444"],
                   [NoItem EXCEPT !.name = "Food", !.type = "income"]}

\* { id, ...income }
TxRecord(id, tx) == [id |-> id, name |-> tx.name, categoryId |-> tx.categoryId,
                     amount |-> tx.amount, date |-> tx.date, type |-> tx.type]

\* { id, ...category }
CategoryRecord(id, c) == [id |-> id, name |-> c.name, type |-> c.type, color |-> c.color]

defaultCategories ==
    << [id |-> MkId("", 1), name |-> "Salary", type |-> "income", color |-> "#10b981"],
       [id |-> MkId("", 2), name |-> "Freelance", type |-> "income", color |-> "#34d399"],
       [id |-> MkId("", 3), name |-> "Investment", type |-> "income", color |-> "#6ee7b7"],
       [id |-> MkId("", 4), name |-> "Food", type |-> "expense", color |-> "#ef4444"],
       [id |-> MkId("", 5), name |-> "Transport", type |-> "expense", color |-> "#f87171"],
       [id |-> MkId("", 6), name |-> "Entertainment", type |-> "expense", color |-> "#fca5a5"],
       [id |-> MkId("", 7), name |-> "Bills", type |-> "expense", color |-> "#dc2626"] >>

\* response.data of /login and /register: which of the fields are truthy
NoBody == [token |-> FALSE, user |-> FALSE, success |-> FALSE,
           accessToken |-> FALSE, dataToken |-> FALSE, dataUser |-> FALSE]

\* ------------------------------------------------------ list response bodies
\* a JSON value as the list operations look at it: undefined, null, an
\* array with its items, a non-empty string, or an object
Undefined == [t |-> "undefined", items |-> << >>]
Arr(n) == [t |-> "array", items |-> << [id |-> MkId("srv", n)] >>]
Text == [t |-> "text", items |-> << >>]
Obj == [t |-> "object", items |-> << >>]

\* response.data of a list call: the value itself, its field named after the
\* resource (incomes, expenses, categories), its field data, and the field
\* of data named after the resource
NoListBody == [t |-> "undefined", items |-> << >>, kindField |-> Undefined,
               dataField |-> Undefined, dataKindField |-> Undefined]

BareArrayBody == [NoListBody EXCEPT !.t = "array", !.items = Arr(1).items]
KindBody == [NoListBody EXCEPT !.t = "object", !.kindField = Arr(2)]
DataBody == [NoListBody EXCEPT !.t = "object", !.dataField = Arr(3)]
NestedBody == [NoListBody EXCEPT !.t = "object", !.dataField = Obj, !.dataKindField = Arr(4)]

\* the four documented shapes, a body with both fields, a body whose
\* resource field is not an array, an object without either field, and null
ListBodies ==
    { BareArrayBody, KindBody, DataBody, NestedBody,
      [NoListBody EXCEPT !.t = "object", !.kindField = Arr(2), !.dataField = Arr(3)],
      [NoListBody EXCEPT !.t = "object", !.kindField = Text, !.dataField = Arr(3)],
      [NoListBody EXCEPT !.t = "object"],
      [NoListBody EXCEPT !.t = "null"] }

\* a value that || does not skip
truthy(v) == v.t \in {"array", "text", "object"}

\* const data = response.data.incomes || response.data.data || response.data;
\* return Array.isArray(data) ? data : []
normalizeCollection(body) ==
    LET data == IF truthy(body.kindField) THEN body.kindField
                ELSE IF truthy(body.dataField) THEN body.dataField
                ELSE [t |-> body.t, items |-> body.items]
    IN IF data.t = "array" THEN data.items ELSE << >>

\* reading a field of null throws a TypeError
normalizeThrows(body) == body.t = "null"

\* ------------------------------------------------- axios request interceptor
\* API_END_POINTS: the path each operation requests (an update or a delete
\* appends '/' and the id)
Url(op) ==
    CASE op = "login" -> "/login"
      [] op = "register" -> "/register"
      [] op \in {"fetchIncomes", "createIncome", "updateIncome", "deleteIncome"} -> "/incomes"
      [] op \in {"fetchExpenses", "createExpense", "updateExpense", "deleteExpense"} -> "/expenses"
      [] op \in {"fetchCategories", "createCategory", "updateCategory", "deleteCategory"} -> "/categories"
      [] OTHER -> "/filter"

excludeEndpoints == {"/login", "/register"}

\* excludeEndpoints.some(endpoint => config.url?.includes(endpoint)): no path
\* of the API contains another one
shouldSkipToken(url) == \E endpoint \in excludeEndpoints : url = endpoint

\* the exemption test inverted
requestInterceptor_onlyExempted(url, accessToken) ==
    IF shouldSkipToken(url) /\ accessToken # NULL_TOKEN THEN accessToken ELSE NULL_TOKEN

\* the token of the Authorization header the request leaves with; NULL_TOKEN
\* when no header is set
requestInterceptor(url, accessToken) ==
    IF ~shouldSkipToken(url) /\ accessToken # NULL_TOKEN THEN accessToken ELSE NULL_TOKEN

\* ------------------------------------------------------------------- calls
IdleCall == [st |-> "idle", op |-> "", issuedMode |-> "", id |-> NoId,
             email |-> "", password |-> "", username |-> "", item |-> NoItem,
             authorization |-> NULL_TOKEN, attempts |-> 0]

\* the request as it leaves the request interceptor
Call(op, mode) ==
    [IdleCall EXCEPT !.st = "pending", !.op = op, !.issuedMode = ModeName(mode),
                     !.authorization = requestInterceptor(Url(op), token),
                     !.attempts = 1]

\* list, create, update, delete, filter, login or register
OpClass(op) ==
    CASE op \in {"fetchIncomes", "fetchExpenses", "fetchCategories"} -> "list"
      [] op \in {"createIncome", "createExpense", "createCategory"} -> "create"
      [] op \in {"updateIncome", "updateExpense", "updateCategory"} -> "update"
      [] op \in {"deleteIncome", "deleteExpense", "deleteCategory"} -> "delete"
      [] op = "filterTransactions" -> "filter"
      [] OTHER -> op

\* the record of a step: which handler ran ("call" while its axios call is
\* only issued), the class of the operation, the outcome of its remote call,
\* what the caller received ("remote", "local", "error") and the mode the
\* operation was invoked in
\* item is the argument of a create, data what the caller received, body the
\* response.data a list operation or an authentication looked at
Step(name, op, out, res, err, mode) ==
    [step |-> OpClass(name), op |-> OpClass(op), out |-> out, res |-> res, err |-> err,
     issuedMode |-> mode, item |-> NoItem, data |-> << >>, body |-> NoListBody,
     auth |-> NoBody]

NoOutcome == [code |-> "", message |-> "", status |-> 0]

\* ------------------------------------------------- axios response interceptor
\* a server error taken for an unreachable server
responseInterceptor_offlineOn500(err, s) ==
    IF err = OK_RESPONSE THEN s
    ELSE IF err.status = 401
         THEN [token |-> NULL_TOKEN, currentUser |-> NULL_USER, backendMode |-> "offline"]
    ELSE IF err.status = 403 THEN s
    ELSE IF err.status = 500 \/ err.code = "ECONNABORTED" \/ err.message = "Network Error"
         THEN [s EXCEPT !.backendMode = "offline"]
    ELSE s

\* a reachable server taken as the signal to go back online
responseInterceptor_onlineOnSuccess(err, s) ==
    IF err = OK_RESPONSE THEN [s EXCEPT !.backendMode = "online"]
    ELSE IF err.status = 401
         THEN [token |-> NULL_TOKEN, currentUser |-> NULL_USER, backendMode |-> "offline"]
    ELSE IF err.status = 403 THEN s
    ELSE IF err.status = 500 THEN s
    ELSE IF err.code = "ECONNABORTED" \/ err.message = "Network Error"
         THEN [s EXCEPT !.backendMode = "offline"]
    ELSE s

\* the error branch of axiosConfig.interceptors.response, as a function of
\* the session in localStorage
responseInterceptor(err, s) ==
    IF err = OK_RESPONSE THEN s
    ELSE IF err.status = 401
         THEN [token |-> NULL_TOKEN, currentUser |-> NULL_USER, backendMode |-> "offline"]
    ELSE IF err.status = 403 THEN s
    ELSE IF err.status = 500 THEN s
    ELSE IF err.code = "ECONNABORTED" \/ err.message = "Network Error"
         THEN [s EXCEPT !.backendMode = "offline"]
    ELSE s

\* no category has been created since the last list
NoCreated == [item |-> NoItem, store |-> "none", uid |-> getUserId(NULL_USER)]

\* no load has run: nothing awaited, nothing delivered
IdleAggregate ==
    [st |-> "idle", parts |-> [k \in AggregateParts |-> "none"],
     from |-> [k \in AggregateParts |-> "none"], delivered |-> {}, substitute |-> FALSE]

\* ------------------------------------------------------------------- Init
Init ==
    /\ token = NULL_TOKEN
    /\ currentUser = NULL_USER
    /\ backendMode = "absent"
    /\ users = << >>
    /\ collections = << >>
    /\ isAuthenticated = FALSE
    /\ calls = [s \in Slots \cup PartSlots |-> IdleCall]
    /\ now = 1
    /\ aggregate = IdleAggregate
    /\ categoryRepository = << >>
    /\ created = NoCreated
    /\ last = Step("init", "", NoOutcome, "none", "", "")

\* ----------------------------------------------------- authentication bodies

\* the four documented formats, the bodies with a token and no user, a body
\* with a user and no token, and the empty body
AuthBodies ==
    { [NoBody EXCEPT !.token = TRUE, !.user = TRUE],
      [NoBody EXCEPT !.success = TRUE, !.token = TRUE, !.dataUser = TRUE],
      [NoBody EXCEPT !.accessToken = TRUE, !.user = TRUE],
      [NoBody EXCEPT !.dataToken = TRUE, !.dataUser = TRUE],
      [NoBody EXCEPT !.token = TRUE],
      [NoBody EXCEPT !.accessToken = TRUE],
      [NoBody EXCEPT !.token = TRUE, !.dataUser = TRUE],
      [NoBody EXCEPT !.user = TRUE],
      NoBody }

\* the if / else-if chain over the four formats; user is null unless a
\* format matched
extractAuth(b) ==
    IF b.token /\ b.user THEN [token |-> TRUE, user |-> TRUE]
    ELSE IF b.success /\ b.token /\ b.dataUser THEN [token |-> TRUE, user |-> TRUE]
    ELSE IF b.accessToken /\ b.user THEN [token |-> TRUE, user |-> TRUE]
    ELSE IF b.dataToken /\ b.dataUser THEN [token |-> TRUE, user |-> TRUE]
    ELSE [token |-> FALSE, user |-> FALSE]

\* what the inner try of handleSubmit ends with: the axios error, or the
\* Error it throws itself when no token was found, or success
AuthTryResult(out, body) ==
    IF out # OK_RESPONSE THEN out
    ELSE IF ~extractAuth(body).token THEN PlainError("Invalid response from server")
    ELSE OK_RESPONSE

\* apiError.code === 'ERR_NETWORK' || apiError.message === 'Network Error' || !apiError.response
authFallsBack(apiError) ==
    apiError.code = "ERR_NETWORK" \/ apiError.message = "Network Error" \/ ~hasResponse(apiError)

\* users.find(u => u.email === email && u.password === password)
RECURSIVE findUser(_, _, _)
findUser(list, email, password) ==
    IF list = << >> THEN NULL_USER
    ELSE IF Head(list).email = email /\ Head(list).password = password
         THEN [id |-> Head(list).id, email |-> Head(list).email, username |-> Head(list).username]
         ELSE findUser(Tail(list), email, password)

\* a registration that never finds the email stored
emailExists_never(list, email) == FALSE

\* users.some(u => u.email === email)
emailExists(list, email) == \E i \in 1..Len(list) : list[i].email = email

\* 'offline' stored after a server response as well
authBackendMode_alwaysOffline(store) == "offline"

\* the mode handleSubmit stores with the token: 'online' after a server
\* response, 'offline' after the localStorage authentication
authBackendMode(store) == IF store = "remote" THEN "online" ELSE "offline"

\* the message of the Error the inner try threw itself, "" otherwise
thrownMessage(apiError) == IF apiError.code = "" THEN apiError.message ELSE ""

\* the step of a resumed handleSubmit, with the response.data in which it
\* found no token
AuthStep(name, out, body, res, err, mode) ==
    [Step(name, name, out, res, err, mode) EXCEPT
        !.auth = IF out = OK_RESPONSE /\ ~extractAuth(body).token THEN body ELSE NoBody]

AuthPending == \E s \in Slots : calls[s].st = "pending" /\ calls[s].op \in {"login", "register"}

\* ------------------------------------------------------------------- Login
\* Login.handleSubmit up to its await
Login_handleSubmit(s, email, password) ==
    /\ ~isAuthenticated
    /\ ~AuthPending
    /\ calls[s].st = "idle"
    /\ IF email = "" \/ password = ""
       THEN /\ last' = Step("login", "login", NoOutcome, "error", "validation", "")
            /\ UNCHANGED calls
       ELSE /\ calls' = [calls EXCEPT ![s] =
                    [Call("login", backendMode) EXCEPT !.email = email, !.password = password]]
            /\ last' = Step("call", "login", NoOutcome, "none", "", ModeName(backendMode))
    /\ UNCHANGED <<token, currentUser, backendMode, users, collections, isAuthenticated, now, aggregate, categoryRepository, created>>

\* Login.handleSubmit from the response on
Login_handleSubmit_resume(s, out, body) ==
    LET c == calls[s]
        s1 == responseInterceptor(out, session)
        apiError == AuthTryResult(out, body)
        found == findUser(users, c.email, c.password)
    IN
    /\ c.st = "pending" /\ c.op = "login"
    /\ calls' = [calls EXCEPT ![s] = IdleCall]
    /\ UNCHANGED <<users, collections, now, aggregate, categoryRepository, created>>
    /\ IF apiError = OK_RESPONSE
       THEN /\ token' = JWT
            /\ currentUser' = IF extractAuth(body).user THEN ServerUser(c.email)
                              ELSE [id |-> NoId, email |-> c.email, username |-> LocalPart(c.email)]
            /\ backendMode' = authBackendMode("remote")
            /\ isAuthenticated' = TRUE
            /\ last' = AuthStep("login", out, body, "remote", "", c.issuedMode)
       ELSE IF authFallsBack(apiError)
            THEN IF found # NULL_USER
                 THEN /\ token' = [kind |-> "offline", n |-> now]
                      /\ currentUser' = found
                      /\ backendMode' = authBackendMode("local")
                      /\ isAuthenticated' = TRUE
                      /\ last' = AuthStep("login", out, body, "local", thrownMessage(apiError), c.issuedMode)
                 ELSE /\ token' = s1.token
                      /\ currentUser' = s1.currentUser
                      /\ backendMode' = s1.backendMode
                      /\ UNCHANGED isAuthenticated
                      /\ last' = AuthStep("login", out, body, "error", thrownMessage(apiError), c.issuedMode)
            ELSE /\ token' = s1.token
                 /\ currentUser' = s1.currentUser
                 /\ backendMode' = s1.backendMode
                 /\ UNCHANGED isAuthenticated
                 /\ last' = AuthStep("login", out, body, "error", thrownMessage(apiError), c.issuedMode)

\* ---------------------------------------------------------------- Register
\* Register.handleSubmit up to its await
Register_handleSubmit(s, username, email, password, confirmPassword) ==
    /\ ~isAuthenticated
    /\ ~AuthPending
    /\ calls[s].st = "idle"
    /\ IF \/ username = "" \/ email = "" \/ password = "" \/ confirmPassword = ""
          \/ password # confirmPassword
          \/ PasswordLength(password) < 6
       THEN /\ last' = Step("register", "register", NoOutcome, "error", "validation", "")
            /\ UNCHANGED calls
       ELSE /\ calls' = [calls EXCEPT ![s] =
                    [Call("register", backendMode) EXCEPT
                        !.email = email, !.password = password, !.username = username]]
            /\ last' = Step("call", "register", NoOutcome, "none", "", ModeName(backendMode))
    /\ UNCHANGED <<token, currentUser, backendMode, users, collections, isAuthenticated, now, aggregate, categoryRepository, created>>

\* Register.handleSubmit from the response on
Register_handleSubmit_resume(s, out, body) ==
    LET c == calls[s]
        s1 == responseInterceptor(out, session)
        apiError == AuthTryResult(out, body)
        newUser == [id |-> MkId("user", now), username |-> c.username,
                    email |-> c.email, password |-> c.password]
    IN
    /\ c.st = "pending" /\ c.op = "register"
    /\ calls' = [calls EXCEPT ![s] = IdleCall]
    /\ UNCHANGED <<collections, now, aggregate, categoryRepository, created>>
    /\ IF apiError = OK_RESPONSE
       THEN /\ token' = JWT
            /\ currentUser' = IF extractAuth(body).user THEN ServerUser(c.email)
                              ELSE [id |-> NoId, email |-> c.email, username |-> c.username]
            /\ backendMode' = authBackendMode("remote")
            /\ isAuthenticated' = TRUE
            /\ UNCHANGED users
            /\ last' = AuthStep("register", out, body, "remote", "", c.issuedMode)
       ELSE IF authFallsBack(apiError)
            THEN IF emailExists(users, c.email)
                 THEN /\ token' = s1.token
                      /\ currentUser' = s1.currentUser
                      /\ backendMode' = s1.backendMode
                      /\ UNCHANGED <<isAuthenticated, users>>
                      /\ last' = AuthStep("register", out, body, "error", thrownMessage(apiError), c.issuedMode)
                 ELSE /\ users' = Append(users, newUser)
                      /\ token' = [kind |-> "offline", n |-> now]
                      /\ currentUser' = [id |-> newUser.id, email |-> c.email, username |-> c.username]
                      /\ backendMode' = authBackendMode("local")
                      /\ isAuthenticated' = TRUE
                      /\ last' = AuthStep("register", out, body, "local", thrownMessage(apiError), c.issuedMode)
            ELSE /\ token' = s1.token
                 /\ currentUser' = s1.currentUser
                 /\ backendMode' = s1.backendMode
                 /\ UNCHANGED <<isAuthenticated, users>>
                 /\ last' = AuthStep("register", out, body, "error", thrownMessage(apiError), c.issuedMode)

\* a page load that asks for a new login whatever is stored
App_mount_requiresLogin ==
    /\ calls' = [s \in Slots \cup PartSlots |-> IdleCall]
    /\ aggregate' = IdleAggregate
    /\ UNCHANGED <<categoryRepository, created>>
    /\ token' = NULL_TOKEN
    /\ isAuthenticated' = FALSE
    /\ last' = Step("mount", "", NoOutcome, "none", "", "")
    /\ UNCHANGED <<currentUser, backendMode, users, collections, now>>

\* --------------------------------------------------------------------- App
\* the mount effect of App: a page load, which also ends every call in flight
App_mount ==
    /\ calls' = [s \in Slots \cup PartSlots |-> IdleCall]
    /\ aggregate' = IdleAggregate
    /\ UNCHANGED <<categoryRepository, created>>
    /\ IF token # NULL_TOKEN /\ currentUser # NULL_USER
       THEN /\ backendMode' = "online"
            /\ isAuthenticated' = TRUE
       ELSE /\ isAuthenticated' = FALSE
            /\ UNCHANGED backendMode
    /\ last' = Step("mount", "", NoOutcome, "none", "", "")
    /\ UNCHANGED <<token, currentUser, users, collections, now>>

\* the mode flag left in place, as the 401 branch of the interceptor leaves it
handleLogout_keepsMode ==
    /\ isAuthenticated
    /\ isAuthenticated' = FALSE
    /\ token' = NULL_TOKEN
    /\ currentUser' = NULL_USER
    /\ aggregate' = [aggregate EXCEPT !.delivered = {}, !.substitute = FALSE]
    /\ UNCHANGED <<categoryRepository, created>>
    /\ last' = Step("logout", "", NoOutcome, "none", "", "")
    /\ UNCHANGED <<backendMode, users, collections, calls, now>>

handleLogout ==
    /\ isAuthenticated
    /\ isAuthenticated' = FALSE
    /\ token' = NULL_TOKEN
    /\ currentUser' = NULL_USER
    /\ backendMode' = "absent"
    /\ aggregate' = [aggregate EXCEPT !.delivered = {}, !.substitute = FALSE]
    /\ UNCHANGED <<categoryRepository, created>>
    /\ last' = Step("logout", "", NoOutcome, "none", "", "")
    /\ UNCHANGED <<users, collections, calls, now>>

\* a profile update that stores a token next to the user
handleUpdateProfile_setsToken(username, email) ==
    /\ isAuthenticated
    /\ currentUser' = [id |-> NoId, email |-> email, username |-> username]
    /\ token' = JWT
    /\ last' = Step("updateProfile", "", NoOutcome, "none", "", "")
    /\ UNCHANGED <<backendMode, users, collections, isAuthenticated, calls, now, aggregate, categoryRepository, created>>

\* the stored user is replaced by the profile form's object, which has no id
handleUpdateProfile(username, email) ==
    /\ isAuthenticated
    /\ currentUser' = [id |-> NoId, email |-> email, username |-> username]
    /\ last' = Step("updateProfile", "", NoOutcome, "none", "", "")
    /\ UNCHANGED <<token, backendMode, users, collections, isAuthenticated, calls, now, aggregate, categoryRepository, created>>

forceOnlineMode ==
    /\ backendMode' = "online"
    /\ last' = Step("forceOnlineMode", "", NoOutcome, "none", "", "")
    /\ UNCHANGED <<token, currentUser, users, collections, isAuthenticated, calls, now, aggregate, categoryRepository, created>>

\* time passes
Tick ==
    /\ now < MaxClock
    /\ now' = now + 1
    /\ UNCHANGED <<token, currentUser, backendMode, users, collections, isAuthenticated,
                   calls, aggregate, categoryRepository, created, last>>

\* ------------------------------------------------------------- the facade
\* the code misspelt and the message not looked at
isNetworkError_wrongCode(error) == error.code = "NETWORK_ERROR"

\* error.code === 'ERR_NETWORK' || error.message === 'Network Error'
isNetworkError(error) == error.code = "ERR_NETWORK" \/ error.message = "Network Error"

\* the ids a delete or an update is asked for: the id a local create gives
\* at the first clock value, the first default category and a server id
\* the resource an operation works on
KindOf(op) ==
    CASE op \in {"fetchIncomes", "createIncome", "updateIncome", "deleteIncome"} -> "incomes"
      [] op \in {"fetchExpenses", "createExpense", "updateExpense", "deleteExpense"} -> "expenses"
      [] OTHER -> "categories"

\* what the offline branch returns: the parsed collection (the defaults it
\* has just stored, for categories) from a list, the record it pushed from
\* a create
localResult(op, coll, user) ==
    LET list == getItem(coll, Key(KindOf(op), user)) IN
    CASE OpClass(op) = "list" -> list
      [] OpClass(op) = "create" -> << list[Len(list)] >>
      [] OTHER -> << >>

\* what the online branch returns: the normalized body from a list, the
\* record of the server's answer from a create
remoteResult(op, body, item) ==
    CASE OpClass(op) = "list" -> normalizeCollection(body)
      [] op = "createCategory" -> << CategoryRecord(MkId("srv", 1), item) >>
      [] OpClass(op) = "create" -> << TxRecord(MkId("srv", 1), item) >>
      [] OTHER -> << >>

IdsOf(kind) ==
    {MkId(IF kind = "incomes" THEN "inc" ELSE IF kind = "expenses" THEN "exp" ELSE "cat", 1)}
    \cup (IF kind = "categories" THEN {MkId("", 1)} ELSE {})
    \cup {MkId("srv", 1)}

\* a create that writes back the list it read before another create wrote
localCreate_staleRead(coll, kind, user, rec) ==
    setItem(coll, Key(kind, user), << rec >>)

\* the offline branch of a create: read the collection, push, write it back
localCreate(coll, kind, user, rec) ==
    setItem(coll, Key(kind, user), Append(getItem(coll, Key(kind, user)), rec))

\* the offline branch of a delete: read, filter, write back
localDelete(coll, kind, user, id) ==
    setItem(coll, Key(kind, user), filterOut(getItem(coll, Key(kind, user)), id))

\* the defaults stored under the key of no user
localFetchCategories_wrongKey(coll, user) ==
    IF Len(getItem(coll, Key("categories", user))) = 0
    THEN setItem(coll, Key("categories", NULL_USER), defaultCategories)
    ELSE coll

\* the offline branch of fetchCategories: an empty collection is seeded with
\* the defaults
localFetchCategories(coll, user) ==
    IF Len(getItem(coll, Key("categories", user))) = 0
    THEN setItem(coll, Key("categories", user), defaultCategories)
    ELSE coll

\* the synchronous prefix of an operation that checks the mode first: served
\* from the Local Store when offline, an axios call otherwise
Start(s, op, c, localColl) ==
    /\ isAuthenticated
    /\ calls[s].st = "idle"
    /\ IF isOfflineMode(backendMode)
       THEN /\ collections' = localColl
            /\ last' = [Step(op, op, NoOutcome, "local", "", "local") EXCEPT
                            !.item = c.item, !.data = localResult(op, localColl, currentUser)]
            /\ UNCHANGED calls
       ELSE /\ calls' = [calls EXCEPT ![s] = c]
            /\ last' = [Step("call", op, NoOutcome, "none", "", "remote") EXCEPT !.item = c.item]
            /\ UNCHANGED collections
    /\ UNCHANGED <<token, currentUser, backendMode, users, isAuthenticated, now>>

\* an operation called on its own
StartChecked(s, op, c, localColl) ==
    /\ Start(s, op, c, localColl)
    /\ UNCHANGED <<aggregate, categoryRepository, created>>

\* the synchronous prefix of an operation that goes to axios whatever the mode
StartUnchecked(s, op, c) ==
    /\ isAuthenticated
    /\ calls[s].st = "idle"
    /\ calls' = [calls EXCEPT ![s] = c]
    /\ last' = Step("call", op, NoOutcome, "none", "", ModeName(backendMode))
    /\ UNCHANGED <<token, currentUser, backendMode, users, collections, isAuthenticated, now, aggregate, categoryRepository, created>>

\* the operations whose catch, having stored the mode, calls the operation
\* again (return deleteIncome(id)); the others run their offline code in
\* the catch itself
retries(op) ==
    op \in {"deleteIncome", "deleteExpense", "fetchCategories", "createCategory",
            "deleteCategory"}

\* the resumption of an operation whose catch falls back on a network error:
\* localColl is the Local Store after the offline branch has run for the
\* user the interceptor left in place
Resumption(s, op, out, body, localColl) ==
    LET s1 == responseInterceptor(out, session)
        c == calls[s]
    IN
    /\ c.st = "pending" /\ c.op = op
    /\ token' = s1.token
    /\ currentUser' = s1.currentUser
    /\ IF out = OK_RESPONSE
       THEN /\ backendMode' = s1.backendMode
            /\ calls' = [calls EXCEPT ![s] = IdleCall]
            /\ UNCHANGED collections
            /\ last' = IF OpClass(op) = "list" /\ normalizeThrows(body)
                       THEN [Step(op, op, out, "error", "TypeError", c.issuedMode) EXCEPT
                                !.body = body]
                       ELSE [Step(op, op, out, "remote", "", c.issuedMode) EXCEPT
                                !.item = c.item, !.body = body,
                                !.data = remoteResult(op, body, c.item)]
       ELSE IF isNetworkError(out)
            THEN /\ backendMode' = "offline"
                 /\ IF retries(op) /\ ~isOfflineMode(backendMode')
                    THEN /\ calls' = [calls EXCEPT ![s] = [c EXCEPT !.attempts = @ + 1]]
                         /\ UNCHANGED collections
                         /\ last' = [Step("call", op, out, "none", "", c.issuedMode) EXCEPT
                                         !.item = c.item]
                    ELSE /\ calls' = [calls EXCEPT ![s] = IdleCall]
                         /\ collections' = localColl
                         /\ last' = [Step(op, op, out, "local", "", c.issuedMode) EXCEPT
                                         !.item = c.item,
                                         !.data = localResult(op, localColl, currentUser)]
            ELSE /\ backendMode' = s1.backendMode
                 /\ calls' = [calls EXCEPT ![s] = IdleCall]
                 /\ UNCHANGED collections
                 /\ last' = [Step(op, op, out, "error", "", c.issuedMode) EXCEPT !.item = c.item]
    /\ UNCHANGED <<users, isAuthenticated, now>>

\* an operation called on its own: no load is waiting for it
ResumeWithFallback(s, op, out, body, localColl) ==
    /\ Resumption(s, op, out, body, localColl)
    /\ UNCHANGED <<aggregate, categoryRepository, created>>

\* the resumption of an operation without a catch of its own
ResumeNoFallback(s, op, out) ==
    LET s1 == responseInterceptor(out, session) IN
    /\ calls[s].st = "pending" /\ calls[s].op = op
    /\ calls' = [calls EXCEPT ![s] = IdleCall]
    /\ token' = s1.token
    /\ currentUser' = s1.currentUser
    /\ backendMode' = s1.backendMode
    /\ last' = Step(op, op, out, IF out = OK_RESPONSE THEN "remote" ELSE "error",
                    "", calls[s].issuedMode)
    /\ UNCHANGED <<users, collections, isAuthenticated, now, aggregate, categoryRepository, created>>

\* !income.categoryId || income.amount <= 0 || !income.date
invalidTransaction(tx) == tx.categoryId = 0 \/ tx.amount <= 0 \/ tx.date = ""

ValidationFails(op, item) ==
    /\ isAuthenticated
    /\ last' = [Step(op, op, NoOutcome, "error", "Missing required fields", ModeName(backendMode))
                    EXCEPT !.item = item]
    /\ UNCHANGED <<token, currentUser, backendMode, users, collections, isAuthenticated, calls, now, aggregate, categoryRepository, created>>

\* the bounds on the Local Store: a new collection only while fewer than
\* maxKeys are non-empty, a record more only below maxItems; they apply when
\* the step runs the offline branch (local) and are set by the specification
Writable(kind, local, maxKeys) ==
    local => \/ Key(kind, currentUser) \in DOMAIN collections
             \/ Cardinality(DOMAIN collections) < maxKeys

Room(kind, local, maxItems, maxKeys) ==
    local => /\ Len(getItem(collections, Key(kind, currentUser))) < maxItems
             /\ Writable(kind, TRUE, maxKeys)

\* the bound on the local users collection: it applies when the resumption
\* of slot s registers locally
UsersRoom(s, out, body, maxUsers) ==
    (authFallsBack(AuthTryResult(out, body)) /\ ~emailExists(users, calls[s].email))
        => Len(users) < maxUsers

\* ----------------------------------------------------------------- incomes
fetchIncomes(s) ==
    StartChecked(s, "fetchIncomes", Call("fetchIncomes", backendMode), collections)

fetchIncomes_resume(s, out, body) ==
    ResumeWithFallback(s, "fetchIncomes", out, body, collections)

createIncome(s, income) ==
    IF invalidTransaction(income)
    THEN ValidationFails("createIncome", income)
    ELSE StartChecked(s, "createIncome",
                [Call("createIncome", backendMode) EXCEPT !.item = income],
                localCreate(collections, "incomes", currentUser, TxRecord(MkId("inc", now), income)))

createIncome_resume(s, out) ==
    ResumeWithFallback(s, "createIncome", out, NoListBody,
            localCreate(collections, "incomes", currentUser, TxRecord(MkId("inc", now), calls[s].item)))

updateIncome(s, id) ==
    StartUnchecked(s, "updateIncome", [Call("updateIncome", backendMode) EXCEPT !.id = id])

updateIncome_resume(s, out) == ResumeNoFallback(s, "updateIncome", out)

deleteIncome(s, id) ==
    StartChecked(s, "deleteIncome", [Call("deleteIncome", backendMode) EXCEPT !.id = id],
                 localDelete(collections, "incomes", currentUser, id))

deleteIncome_resume(s, out) ==
    ResumeWithFallback(s, "deleteIncome", out, NoListBody,
                       localDelete(collections, "incomes", currentUser, calls[s].id))

\* ---------------------------------------------------------------- expenses
fetchExpenses(s) ==
    StartChecked(s, "fetchExpenses", Call("fetchExpenses", backendMode), collections)

fetchExpenses_resume(s, out, body) ==
    ResumeWithFallback(s, "fetchExpenses", out, body, collections)

createExpense(s, expense) ==
    IF invalidTransaction(expense)
    THEN ValidationFails("createExpense", expense)
    ELSE StartChecked(s, "createExpense",
                [Call("createExpense", backendMode) EXCEPT !.item = expense],
                localCreate(collections, "expenses", currentUser, TxRecord(MkId("exp", now), expense)))

createExpense_resume(s, out) ==
    ResumeWithFallback(s, "createExpense", out, NoListBody,
            localCreate(collections, "expenses", currentUser, TxRecord(MkId("exp", now), calls[s].item)))

updateExpense(s, id) ==
    StartUnchecked(s, "updateExpense", [Call("updateExpense", backendMode) EXCEPT !.id = id])

updateExpense_resume(s, out) == ResumeNoFallback(s, "updateExpense", out)

deleteExpense(s, id) ==
    StartChecked(s, "deleteExpense", [Call("deleteExpense", backendMode) EXCEPT !.id = id],
                 localDelete(collections, "expenses", currentUser, id))

deleteExpense_resume(s, out) ==
    ResumeWithFallback(s, "deleteExpense", out, NoListBody,
                       localDelete(collections, "expenses", currentUser, calls[s].id))

\* -------------------------------------------------------------- categories
fetchCategories(s) ==
    StartChecked(s, "fetchCategories", Call("fetchCategories", backendMode),
                 localFetchCategories(collections, currentUser))

fetchCategories_resume(s, out, body) ==
    ResumeWithFallback(s, "fetchCategories", out, body, localFetchCategories(collections, currentUser))

createCategory(s, category) ==
    StartChecked(s, "createCategory",
            [Call("createCategory", backendMode) EXCEPT !.item = category],
            localCreate(collections, "categories", currentUser, CategoryRecord(MkId("cat", now), category)))

createCategory_resume(s, out) ==
    ResumeWithFallback(s, "createCategory", out, NoListBody,
            localCreate(collections, "categories", currentUser, CategoryRecord(MkId("cat", now), calls[s].item)))

updateCategory(s, id) ==
    StartUnchecked(s, "updateCategory", [Call("updateCategory", backendMode) EXCEPT !.id = id])

updateCategory_resume(s, out) == ResumeNoFallback(s, "updateCategory", out)

deleteCategory(s, id) ==
    StartChecked(s, "deleteCategory", [Call("deleteCategory", backendMode) EXCEPT !.id = id],
                 localDelete(collections, "categories", currentUser, id))

deleteCategory_resume(s, out) ==
    ResumeWithFallback(s, "deleteCategory", out, NoListBody,
                       localDelete(collections, "categories", currentUser, calls[s].id))

\* ------------------------------------------------------------------ filter
filterTransactions(s) ==
    StartUnchecked(s, "filterTransactions", Call("filterTransactions", backendMode))

filterTransactions_resume(s, out) == ResumeNoFallback(s, "filterTransactions", out)

\* ------------------------------------------------------------ loadUserData
FetchOf(kind) ==
    CASE kind = "incomes" -> "fetchIncomes"
      [] kind = "expenses" -> "fetchExpenses"
      [] OTHER -> "fetchCategories"

\* the offline branch of the list operation of a resource
localFetch(kind, coll, user) ==
    IF kind = "categories" THEN localFetchCategories(coll, user) ELSE coll

\* a combinator that waits for every promise and never rejects
promiseAll_allSettled(parts) ==
    IF \A k \in AggregateParts : parts[k] \in {"data", "error"} THEN "fulfilled" ELSE "pending"

\* Promise.all: rejected with the first rejection, fulfilled once every
\* promise is
promiseAll(parts) ==
    IF \E k \in AggregateParts : parts[k] = "error" THEN "rejected"
    ELSE IF \A k \in AggregateParts : parts[k] = "data" THEN "fulfilled"
    ELSE "pending"

\* the test of the catch of loadUserData before it sets the default categories
catchSubstitutes(error) == error.code = "ERR_NETWORK" \/ error.message = "Network Error"

\* the continuation of loadUserData once the promises stand as parts; a
\* promise that settles after the aggregate did changes nothing
Settle(agg, parts, error) ==
    IF agg.st # "running" THEN [agg EXCEPT !.parts = parts]
    ELSE CASE promiseAll(parts) = "fulfilled" ->
                [agg EXCEPT !.st = "done", !.parts = parts, !.delivered = AggregateParts,
                            !.substitute = FALSE]
           [] promiseAll(parts) = "rejected" ->
                [agg EXCEPT !.st = "failed", !.parts = parts, !.delivered = {},
                            !.substitute = catchSubstitutes(error)]
           [] OTHER -> [agg EXCEPT !.parts = parts]

\* loadUserData up to its await: the three list operations start one after
\* the other in the same task, so all see the same mode; offline each is
\* served from the Local Store and the load completes
loadUserData ==
    LET running == [IdleAggregate EXCEPT !.st = "running"] IN
    /\ isAuthenticated /\ currentUser # NULL_USER
    /\ \A k \in AggregateParts : calls[PartSlot(k)].st = "idle"
    /\ IF isOfflineMode(backendMode)
       THEN /\ collections' = localFetch("categories", collections, currentUser)
            /\ aggregate' = Settle([running EXCEPT !.from = [k \in AggregateParts |-> "local"]],
                                    [k \in AggregateParts |-> "data"], NoOutcome)
            /\ last' = Step("loadUserData", "loadUserData", NoOutcome, "local", "", "local")
            /\ UNCHANGED calls
       ELSE /\ calls' = [s \in DOMAIN calls |->
                            IF s \in PartSlots
                            THEN Call(FetchOf(CHOOSE k \in AggregateParts : PartSlot(k) = s),
                                      backendMode)
                            ELSE calls[s]]
            /\ aggregate' = [running EXCEPT !.parts = [k \in AggregateParts |-> "pending"]]
            /\ last' = Step("call", "loadUserData", NoOutcome, "none", "", "remote")
            /\ UNCHANGED collections
    /\ UNCHANGED <<token, currentUser, backendMode, users, isAuthenticated, now,
                   categoryRepository, created>>

\* one of the three list operations resumes: it runs as it does on its own,
\* and its promise fulfils with the list or rejects with what it rethrew
loadUserData_resume(kind, out, body) ==
    /\ aggregate.parts[kind] = "pending"
    /\ Resumption(PartSlot(kind), FetchOf(kind), out, body,
                  localFetch(kind, collections, currentUser))
    /\ aggregate' = Settle([aggregate EXCEPT !.from[kind] = last'.res],
                           [aggregate.parts EXCEPT
                               ![kind] = IF last'.res = "error" THEN "error" ELSE "data"],
                           IF last'.err = "TypeError" THEN PlainError("TypeError") ELSE out)
    /\ UNCHANGED <<categoryRepository, created>>

\* ------------------------------------------------ the server's categories
\* CategoryDTO and CategoryEntity hold id, name, icon and type: the color
\* the client posts is not kept
toDTO(n, dto) == [id |-> MkId("srv", n), name |-> dto.name, type |-> dto.type, color |-> ""]

existsByNameAndProfileId(repo, name) == \E i \in 1..Len(repo) : repo[i].name = name

\* CategoryService.saveCategory: the RuntimeException becomes a 500
saveCategory(repo, dto) ==
    IF existsByNameAndProfileId(repo, dto.name)
    THEN [out |-> HttpError(500), repo |-> repo]
    ELSE [out |-> OK_RESPONSE, repo |-> Append(repo, toDTO(Len(repo) + 1, dto))]

\* CategoryService.getCategoriesForCurrentUser, as the body of the response
getCategoriesForCurrentUser(repo) == [NoListBody EXCEPT !.t = "array", !.items = repo]

\* loadUserData: color: cat.color || fallbackColors[idx % fallbackColors.length]
fallbackColors ==
    << "#10b981", "#34d399", "#6ee7b7", "#ef4444", "#f87171", "#fca5a5", "#dc2626" >>

paletteColor(i) == fallbackColors[((i - 1) % Len(fallbackColors)) + 1]

categoriesWithColor(categoriesData) ==
    [i \in DOMAIN categoriesData |->
        [categoriesData[i] EXCEPT !.color = IF @ # "" THEN @ ELSE paletteColor(i)]]

\* the history of the category created last: which input, for which user,
\* by which store; a list that completes clears it
Created(category, store, user) ==
    [item |-> category, store |-> store, uid |-> getUserId(user)]

\* createCategory up to its await, with the history kept
createCategory_begin(s, category) ==
    /\ Start(s, "createCategory",
             [Call("createCategory", backendMode) EXCEPT !.item = category],
             localCreate(collections, "categories", currentUser,
                         CategoryRecord(MkId("cat", now), category)))
    /\ created' = IF isOfflineMode(backendMode)
                  THEN Created(category, "local", currentUser) ELSE created
    /\ UNCHANGED <<aggregate, categoryRepository>>

\* the server handles the POST and createCategory resumes with its answer
createCategory_answered(s) ==
    LET r == saveCategory(categoryRepository, calls[s].item) IN
    /\ Resumption(s, "createCategory", r.out, NoListBody, collections)
    /\ categoryRepository' = r.repo
    /\ created' = IF r.out = OK_RESPONSE
                  THEN Created(calls[s].item, "remote", currentUser) ELSE created
    /\ UNCHANGED aggregate

\* the POST finds no server and createCategory runs its offline branch
createCategory_unreachable(s) ==
    /\ Resumption(s, "createCategory", ERR_NETWORK, NoListBody,
                  localCreate(collections, "categories", currentUser,
                              CategoryRecord(MkId("cat", now), calls[s].item)))
    /\ created' = Created(calls[s].item, "local", currentUser)
    /\ UNCHANGED <<aggregate, categoryRepository>>

\* fetchCategories up to its await
fetchCategories_begin(s) ==
    /\ Start(s, "fetchCategories", Call("fetchCategories", backendMode),
             localFetchCategories(collections, currentUser))
    /\ created' = IF isOfflineMode(backendMode) THEN NoCreated ELSE created
    /\ UNCHANGED <<aggregate, categoryRepository>>

\* the server answers the GET with the categories of the profile
fetchCategories_answered(s) ==
    /\ Resumption(s, "fetchCategories", OK_RESPONSE,
                  getCategoriesForCurrentUser(categoryRepository), collections)
    /\ created' = NoCreated
    /\ UNCHANGED <<aggregate, categoryRepository>>

\* the GET finds no server and fetchCategories runs its offline branch
fetchCategories_unreachable(s) ==
    /\ Resumption(s, "fetchCategories", ERR_NETWORK, NoListBody,
                  localFetchCategories(collections, currentUser))
    /\ created' = NoCreated
    /\ UNCHANGED <<aggregate, categoryRepository>>

\* ----------------------------------------- transactions as the pages see them
\* IncomeService.toDTO: the server names the category in categoryId and
\* categoryName
IncomeDTO(n) ==
    [id |-> MkId("srv", n), name |-> "Salary", categoryId |-> 1, categoryName |-> "Salary",
     amount |-> 5000, date |-> "2025-01-01"]

IncomeListBody == [NoListBody EXCEPT !.t = "array", !.items = << IncomeDTO(1) >>]

\* categories.find(c => String(c.id) === transaction.category): the ids of
\* the default categories and of the server are numbers
chosenCategory(categories, categoryId) ==
    {i \in DOMAIN categories :
        categories[i].id.n = categoryId /\ categories[i].id.p \in {"", "srv"}}

\* addTransaction: category: chosenCategory?.name || transaction.category
newTransaction_category(categories, categoryId) ==
    LET found == chosenCategory(categories, categoryId) IN
    IF found # {}
    THEN categories[CHOOSE i \in found : \A j \in found : i <= j].name
    ELSE ToString(categoryId)

\* loadUserData: { ...income, type: 'income', name: income.name || undefined }:
\* the category of the transaction is the field of that name of the record
allTransactions_category(record) ==
    IF "category" \in DOMAIN record THEN record.category ELSE ""

\* ------------------------------------------------------------ specification
\* Every handler of the application. Date.now() keeps its first value here;
\* the specifications below, where ids are compared, advance the clock.
Next ==
    \/ \E s \in Slots, e \in Emails \cup {""}, p \in Passwords : Login_handleSubmit(s, e, p)
    \/ \E s \in Slots, o \in Outcomes, b \in AuthBodies : Login_handleSubmit_resume(s, o, b)
    \/ \E s \in Slots, u \in Usernames, e \in Emails, p \in Passwords \cup {ShortPassword},
          q \in Passwords : Register_handleSubmit(s, u, e, p, q)
    \/ \E s \in Slots, o \in Outcomes, b \in AuthBodies :
            UsersRoom(s, o, b, MaxUsers) /\ Register_handleSubmit_resume(s, o, b)
    \/ App_mount
    \/ handleLogout
    \/ \E u \in Usernames, e \in Emails : handleUpdateProfile(u, e)
    \/ forceOnlineMode
    \/ \E s \in Slots : fetchIncomes(s)
    \/ \E s \in Slots, o \in Outcomes, b \in {BareArrayBody} : fetchIncomes_resume(s, o, b)
    \/ \E s \in Slots, tx \in TxInputs :
            Room("incomes", isOfflineMode(backendMode) /\ ~invalidTransaction(tx), MaxItems, MaxKeys)
            /\ createIncome(s, tx)
    \/ \E s \in Slots, o \in Outcomes :
            Room("incomes", isNetworkError(o), MaxItems, MaxKeys) /\ createIncome_resume(s, o)
    \/ \E s \in Slots : updateIncome(s, MkId("srv", 1))
    \/ \E s \in Slots, o \in Outcomes : updateIncome_resume(s, o)
    \/ \E s \in Slots, id \in IdsOf("incomes") : deleteIncome(s, id)
    \/ \E s \in Slots, o \in Outcomes : deleteIncome_resume(s, o)
    \/ \E s \in Slots : fetchExpenses(s)
    \/ \E s \in Slots, o \in Outcomes, b \in {BareArrayBody} : fetchExpenses_resume(s, o, b)
    \/ \E s \in Slots, tx \in TxInputs :
            Room("expenses", isOfflineMode(backendMode) /\ ~invalidTransaction(tx), MaxItems, MaxKeys)
            /\ createExpense(s, tx)
    \/ \E s \in Slots, o \in Outcomes :
            Room("expenses", isNetworkError(o), MaxItems, MaxKeys) /\ createExpense_resume(s, o)
    \/ \E s \in Slots : updateExpense(s, MkId("srv", 1))
    \/ \E s \in Slots, o \in Outcomes : updateExpense_resume(s, o)
    \/ \E s \in Slots, id \in IdsOf("expenses") : deleteExpense(s, id)
    \/ \E s \in Slots, o \in Outcomes : deleteExpense_resume(s, o)
    \/ \E s \in Slots :
            Writable("categories", isOfflineMode(backendMode), MaxKeys) /\ fetchCategories(s)
    \/ \E s \in Slots, o \in Outcomes, b \in {BareArrayBody} :
            Writable("categories", isNetworkError(o), MaxKeys) /\ fetchCategories_resume(s, o, b)
    \/ \E s \in Slots, c \in CategoryInputs :
            Room("categories", isOfflineMode(backendMode), MaxItems, MaxKeys) /\ createCategory(s, c)
    \/ \E s \in Slots, o \in Outcomes :
            Room("categories", isNetworkError(o), MaxItems, MaxKeys) /\ createCategory_resume(s, o)
    \/ \E s \in Slots : updateCategory(s, MkId("srv", 1))
    \/ \E s \in Slots, o \in Outcomes : updateCategory_resume(s, o)
    \/ \E s \in Slots, id \in IdsOf("categories") : deleteCategory(s, id)
    \/ \E s \in Slots, o \in Outcomes : deleteCategory_resume(s, o)
    \/ \E s \in Slots : filterTransactions(s)
    \/ \E s \in Slots, o \in Outcomes : filterTransactions_resume(s, o)

Spec == Init /\ [][Next]_vars

\* ------------------------------------------- the Local Store, two users
\* The same program while the server is unreachable: two people register
\* and log in against the Local Store, log out, and create, list and delete
\* records, several in the same collection.
StoreEmails == {"a@x", "b@x"}
Nameless == [NoItem EXCEPT !.type = "expense"]
StoreCategoryInputs == CategoryInputs \cup {Nameless}

NextStore ==
    \/ \E s \in Slots, e \in StoreEmails : Register_handleSubmit(s, "neo", e, "secret1", "secret1")
    \/ \E s \in Slots :
            /\ UsersRoom(s, ERR_NETWORK, NoBody, StoreUsers)
            /\ Register_handleSubmit_resume(s, ERR_NETWORK, NoBody)
    \/ \E s \in Slots, e \in StoreEmails : Login_handleSubmit(s, e, "secret1")
    \/ \E s \in Slots : Login_handleSubmit_resume(s, ERR_NETWORK, NoBody)
    \/ handleLogout
    \/ Tick
    \/ \E s \in Slots : fetchIncomes(s)
    \/ \E s \in Slots, tx \in TxInputs :
            Room("incomes", isOfflineMode(backendMode) /\ ~invalidTransaction(tx), StoreItems, StoreKeys)
            /\ createIncome(s, tx)
    \/ \E s \in Slots, id \in IdsOf("incomes") : deleteIncome(s, id)
    \/ \E s \in Slots :
            Writable("categories", isOfflineMode(backendMode), StoreKeys) /\ fetchCategories(s)
    \/ \E s \in Slots, c \in StoreCategoryInputs :
            Room("categories", isOfflineMode(backendMode), StoreItems, StoreKeys) /\ createCategory(s, c)
    \/ \E s \in Slots, id \in IdsOf("categories") : deleteCategory(s, id)

SpecStore == Init /\ [][NextStore]_vars

\* ------------------------------------------------ the income operations
\* One person logs in, against the server or the Local Store, and creates,
\* lists and deletes incomes while the server answers or is unreachable.
ServerAnswers == [NoBody EXCEPT !.token = TRUE, !.user = TRUE]
IncomeOutcomes == {OK_RESPONSE, ERR_NETWORK, HttpError(500)}

NextIncome ==
    \/ \E s \in Slots : Register_handleSubmit(s, "neo", "a@x", "secret1", "secret1")
    \/ \E s \in Slots, o \in IncomeOutcomes :
            /\ UsersRoom(s, o, ServerAnswers, StoreUsers)
            /\ Register_handleSubmit_resume(s, o, ServerAnswers)
    \/ \E s \in Slots : Login_handleSubmit(s, "a@x", "secret1")
    \/ \E s \in Slots, o \in IncomeOutcomes : Login_handleSubmit_resume(s, o, ServerAnswers)
    \/ handleLogout
    \/ Tick
    \/ \E s \in Slots : fetchIncomes(s)
    \/ \E s \in Slots, o \in IncomeOutcomes : fetchIncomes_resume(s, o, BareArrayBody)
    \/ \E s \in Slots, tx \in TxInputs :
            Room("incomes", isOfflineMode(backendMode) /\ ~invalidTransaction(tx), StoreItems, StoreKeys)
            /\ createIncome(s, tx)
    \/ \E s \in Slots, o \in IncomeOutcomes :
            Room("incomes", isNetworkError(o), StoreItems, StoreKeys) /\ createIncome_resume(s, o)
    \/ \E s \in Slots, id \in IdsOf("incomes") : deleteIncome(s, id)
    \/ \E s \in Slots, o \in IncomeOutcomes : deleteIncome_resume(s, o)

SpecIncome == Init /\ [][NextIncome]_vars

\* -------------------------------------------------- the list responses
\* One person logs in and lists incomes, expenses and categories; the server
\* answers every list with one of the bodies of ListBodies, or rejects it.
ListOutcomes == {OK_RESPONSE, HttpError(500), ERR_NETWORK}

NextList ==
    \/ \E s \in Slots : Login_handleSubmit(s, "a@x", "secret1")
    \/ \E s \in Slots : Login_handleSubmit_resume(s, OK_RESPONSE, ServerAnswers)
    \/ handleLogout
    \/ Tick
    \/ \E s \in Slots : fetchIncomes(s)
    \/ \E s \in Slots, o \in ListOutcomes, b \in ListBodies : fetchIncomes_resume(s, o, b)
    \/ \E s \in Slots : fetchExpenses(s)
    \/ \E s \in Slots, o \in ListOutcomes, b \in ListBodies : fetchExpenses_resume(s, o, b)
    \/ \E s \in Slots : fetchCategories(s)
    \/ \E s \in Slots, o \in ListOutcomes, b \in ListBodies : fetchCategories_resume(s, o, b)

SpecList == Init /\ [][NextList]_vars

\* ------------------------------------------------------ the aggregate load
\* One person logs in, against the server or the Local Store, and loads the
\* three collections together; each of the three calls is answered on its
\* own: with a list, a body that cannot be read, a rejection, a timeout,
\* or not at all.
NullBody == [NoListBody EXCEPT !.t = "null"]
AggregateOutcomes == {OK_RESPONSE, ERR_NETWORK, ECONNABORTED, HttpError(500), HttpError(401)}
AggregateBodies == {BareArrayBody, NullBody}

NextAggregate ==
    \/ \E s \in Slots : Register_handleSubmit(s, "neo", "a@x", "secret1", "secret1")
    \/ \E s \in Slots, o \in {OK_RESPONSE, ERR_NETWORK} :
            /\ UsersRoom(s, o, ServerAnswers, StoreUsers)
            /\ Register_handleSubmit_resume(s, o, ServerAnswers)
    \/ \E s \in Slots : Login_handleSubmit(s, "a@x", "secret1")
    \/ \E s \in Slots, o \in {OK_RESPONSE, ERR_NETWORK} :
            Login_handleSubmit_resume(s, o, ServerAnswers)
    \/ handleLogout
    \/ App_mount
    \/ loadUserData
    \/ \E k \in AggregateParts, o \in AggregateOutcomes, b \in AggregateBodies :
            loadUserData_resume(k, o, b)

SpecAggregate == Init /\ [][NextAggregate]_vars

\* ----------------------------------------------- categories, both stores
\* One person registers or logs in, against the server or the Local Store,
\* creates categories and lists them; the server keeps what it is sent, or
\* cannot be reached.
NextCategory ==
    \/ \E s \in Slots : Register_handleSubmit(s, "neo", "a@x", "secret1", "secret1")
    \/ \E s \in Slots, o \in {OK_RESPONSE, ERR_NETWORK} :
            /\ UsersRoom(s, o, ServerAnswers, StoreUsers)
            /\ Register_handleSubmit_resume(s, o, ServerAnswers)
    \/ \E s \in Slots : Login_handleSubmit(s, "a@x", "secret1")
    \/ \E s \in Slots, o \in {OK_RESPONSE, ERR_NETWORK} :
            Login_handleSubmit_resume(s, o, ServerAnswers)
    \/ handleLogout
    \/ App_mount
    \/ \E s \in Slots, c \in CategoryInputs :
            /\ Room("categories", isOfflineMode(backendMode), StoreItems, StoreKeys)
            /\ createCategory_begin(s, c)
    \/ \E s \in Slots :
            /\ Len(categoryRepository) < RepoItems
            /\ createCategory_answered(s)
    \/ \E s \in Slots :
            /\ Room("categories", TRUE, StoreItems, StoreKeys)
            /\ createCategory_unreachable(s)
    \/ \E s \in Slots : fetchCategories_begin(s)
    \/ \E s \in Slots : fetchCategories_answered(s)
    \/ \E s \in Slots : fetchCategories_unreachable(s)

SpecCategory == Init /\ [][NextCategory]_vars

\* ------------------------------------------------- incomes on the pages
\* The income operations again, after the categories have been listed, with
\* the server answering a list of incomes with its own records.
NextTransaction ==
    \/ \E s \in Slots : Register_handleSubmit(s, "neo", "a@x", "secret1", "secret1")
    \/ \E s \in Slots, o \in {OK_RESPONSE, ERR_NETWORK} :
            /\ UsersRoom(s, o, ServerAnswers, StoreUsers)
            /\ Register_handleSubmit_resume(s, o, ServerAnswers)
    \/ handleLogout
    \/ Tick
    \/ \E s \in Slots : fetchCategories(s)
    \/ \E s \in Slots, o \in {OK_RESPONSE, ERR_NETWORK} : fetchCategories_resume(s, o, BareArrayBody)
    \/ \E s \in Slots : fetchIncomes(s)
    \/ \E s \in Slots, o \in IncomeOutcomes : fetchIncomes_resume(s, o, IncomeListBody)
    \/ \E s \in Slots, tx \in TxInputs :
            Room("incomes", isOfflineMode(backendMode) /\ ~invalidTransaction(tx), StoreItems, StoreKeys)
            /\ createIncome(s, tx)
    \/ \E s \in Slots, o \in IncomeOutcomes :
            Room("incomes", isNetworkError(o), StoreItems, StoreKeys) /\ createIncome_resume(s, o)

SpecTransaction == Init /\ [][NextTransaction]_vars

\* ------------------------------------------------ calls in flight together
\* One person, several income operations in flight at a time: each is
\* answered or finds no server, in any order, while others are started.
BurstSlots == 1..(MaxCalls + 1)

NextBurst ==
    \/ \E s \in Slots : Register_handleSubmit(s, "neo", "a@x", "secret1", "secret1")
    \/ \E s \in Slots, o \in {OK_RESPONSE, ERR_NETWORK} :
            /\ UsersRoom(s, o, ServerAnswers, StoreUsers)
            /\ Register_handleSubmit_resume(s, o, ServerAnswers)
    \/ forceOnlineMode
    \/ Tick
    \/ \E s \in BurstSlots :
            Room("incomes", isOfflineMode(backendMode), StoreItems, StoreKeys)
            /\ createIncome(s, Salary)
    \/ \E s \in BurstSlots, o \in {OK_RESPONSE, ERR_NETWORK} :
            Room("incomes", isNetworkError(o), StoreItems, StoreKeys) /\ createIncome_resume(s, o)
    \/ \E s \in BurstSlots, id \in IdsOf("incomes") : deleteIncome(s, id)
    \/ \E s \in BurstSlots, o \in {OK_RESPONSE, ERR_NETWORK} : deleteIncome_resume(s, o)

SpecBurst == Init /\ [][NextBurst]_vars

\* ------------------------------------------------------------------ claims
FacadeClasses == {"list", "create", "update", "delete", "filter"}
AuthClasses == {"login", "register"}

\* this step is the resumption of the call of slot s
Resumes(s) ==
    /\ calls[s].st = "pending"
    /\ calls'[s].st = "idle"
    /\ last'.step = OpClass(calls[s].op)

\* the step logs the user in: a login or register that did not fail
AuthSucceeded(l) == l.step \in AuthClasses /\ l.res \in {"remote", "local"}

\* C1: a facade operation invoked in remote mode whose remote call fails with
\* NetworkUnavailable (here its plainest kind, a refused connection) leaves
\* the mode local and hands its caller the Local Store result, never an error.
C1_FallbackOnNetworkUnavailable ==
    (/\ last.step \in FacadeClasses
     /\ last.issuedMode = "remote"
     /\ last.out = ERR_NETWORK)
        => (isOfflineMode(backendMode) /\ last.res = "local")

\* C2: while the mode is local no facade operation issues a remote call:
\* every facade call in flight was issued in remote mode.
C2_NoRemoteCallInLocalMode ==
    \A s \in Slots :
        (calls[s].st = "pending" /\ OpClass(calls[s].op) \in FacadeClasses)
            => calls[s].issuedMode = "remote"

\* C3: the resumption of a create whose remote call was Rejected (an HTTP
\* error status other than 401) leaves the mode and every Local Store
\* collection as they were, and the caller receives an error.
C3_RejectedCreateSurfaces ==
    [][\A s \in Slots :
        (Resumes(s) /\ last'.step = "create" /\ Rejected(last'.out))
            => (/\ backendMode' = backendMode
                /\ collections' = collections
                /\ last'.res = "error")]_vars

C3_Witness ==
    /\ last.step = "create"
    /\ Rejected(last.out)
    /\ last.res = "error"
    /\ last.issuedMode = "remote"
    /\ ~isOfflineMode(backendMode)

\* C4: the resumption of a facade call that failed with Unauthorized (401)
\* does not move the mode from remote to local and is not served from the
\* Local Store.
C4_UnauthorizedKeepsMode ==
    [][\A s \in Slots :
        (Resumes(s) /\ last'.step \in FacadeClasses /\ Unauthorized(last'.out))
            => (/\ ~isOfflineMode(backendMode) => ~isOfflineMode(backendMode')
                /\ last'.res # "local")]_vars

\* C5 as claimed: the mode goes from local to remote only in a step that is
\* a successful login or register.
C5_OnlyAuthResetsMode ==
    [][(isOfflineMode(backendMode) /\ ~isOfflineMode(backendMode'))
            => AuthSucceeded(last')]_vars

\* C5 as amended: the mode goes from local to remote only in a successful
\* login or register, in the start-up effect that finds a stored token and
\* user, in forceOnlineMode, or in a logout (which removes the stored flag);
\* never in a data operation, a profile update or a failed login.
C5_ModeResetSteps ==
    [][(isOfflineMode(backendMode) /\ ~isOfflineMode(backendMode'))
            => \/ AuthSucceeded(last')
               \/ last'.step = "mount" /\ token # NULL_TOKEN /\ currentUser # NULL_USER
               \/ last'.step = "forceOnlineMode"
               \/ last'.step = "logout"]_vars

C5_Witness ==
    /\ last.step = "login"
    /\ last.res = "remote"
    /\ last.issuedMode = "local"
    /\ backendMode = "online"

\* C6: the token is set to a non-null value only by a step that is a
\* successful login or a successful register.
C6_TokenSetOnlyByAuth ==
    [][(token' # token /\ token' # NULL_TOKEN) => AuthSucceeded(last')]_vars

C6_Witness ==
    /\ token # NULL_TOKEN
    /\ AuthSucceeded(last)

\* C7 as claimed: right after every successful login or register the mode
\* is remote, whichever store validated the credentials.
C7_AuthSetsRemote ==
    AuthSucceeded(last) => ~isOfflineMode(backendMode)

\* C7 as amended: right after a login or register that the remote store
\* answered the mode is remote, whatever it was before; right after one
\* that the Local Store validated the mode is local.
C7_AuthSetsModeOfStore ==
    /\ (last.step \in AuthClasses /\ last.res = "remote") => backendMode = "online"
    /\ (last.step \in AuthClasses /\ last.res = "local") => backendMode = "offline"

C7_Witness ==
    /\ last.step = "register"
    /\ last.res = "remote"
    /\ last.issuedMode = "local"
    /\ token = JWT
    /\ backendMode = "online"

\* C8: right after logout the stored token, user and mode are all absent.
C8_LogoutClearsAll ==
    last.step = "logout"
        => (token = NULL_TOKEN /\ currentUser = NULL_USER /\ backendMode = "absent")

C8_Witness ==
    /\ last.step = "logout"
    /\ token = NULL_TOKEN
    /\ ~isAuthenticated
    /\ users # << >>

\* C9: a remote call of a logged-in session answered with 401 leaves the
\* session as a logout would: token absent, user absent, mode cleared.
C9_UnauthorizedIsLogout ==
    [][\A s \in Slots :
        (Resumes(s) /\ token # NULL_TOKEN /\ Unauthorized(last'.out))
            => (token' = NULL_TOKEN /\ currentUser' = NULL_USER /\ backendMode' = "absent")]_vars

\* C10: a login or register answered successfully without a token in any
\* recognized shape fails with InvalidServerResponse and leaves token, user,
\* mode and the local credential records as they were.
C10_InvalidResponseFails ==
    [][\A s \in Slots :
        (/\ Resumes(s)
         /\ last'.step \in AuthClasses
         /\ last'.out = OK_RESPONSE
         /\ last'.err = "Invalid response from server")
            => (/\ last'.res = "error"
                /\ token' = token
                /\ currentUser' = currentUser
                /\ backendMode' = backendMode
                /\ users' = users)]_vars

\* C11: every remote call leaves with the header rule applied to the token
\* stored at that moment: a call whose path is not login or register, issued
\* while a token is stored, carries exactly that token as its bearer, and a
\* login or register call carries no Authorization header.
C11_BearerOnEveryCallButAuth ==
    [][\A s \in Slots :
        (calls[s].st = "idle" /\ calls'[s].st = "pending")
            => IF calls'[s].op \in AuthClasses
               THEN calls'[s].authorization = NULL_TOKEN
               ELSE token # NULL_TOKEN => calls'[s].authorization = token]_vars

C11_Witness ==
    \E s \in Slots :
        /\ calls[s].st = "pending"
        /\ OpClass(calls[s].op) \in FacadeClasses
        /\ calls[s].authorization = JWT
        /\ token = JWT

\* C12: every place that reacts to a failed call classifies it the same way:
\* a timeout (no response) is NetworkUnavailable for a list, create or delete
\* operation as it is for the response interceptor and for login, so the
\* operation ends as it does after a refused connection, served from the
\* Local Store and not with an error.
C12_TimeoutIsNetworkUnavailable ==
    (/\ last.step \in {"list", "create", "delete"}
     /\ last.issuedMode = "remote"
     /\ NetworkUnavailable(last.out)
     /\ ~hasResponse(last.out))
        => (isOfflineMode(backendMode) /\ last.res = "local")

\* response.data holds a token in one of the recognized places and no user
\* object in any of them
TokenWithoutUser(b) == (b.token \/ b.accessToken \/ b.dataToken) /\ ~b.user /\ ~b.dataUser

\* C18: a login or register answered successfully with a token and no user
\* object succeeds: the session gets the token of the response and a user
\* made from the submitted email.
C18_TokenWithoutUserSucceeds ==
    [][\A s \in Slots :
        (/\ Resumes(s)
         /\ last'.step \in AuthClasses
         /\ last'.out = OK_RESPONSE
         /\ TokenWithoutUser(last'.auth))
            => (/\ last'.res = "remote"
                /\ token' = JWT
                /\ currentUser'.email = calls[s].email
                /\ isAuthenticated')]_vars

\* the input of a create lacks a required field: for a transaction no
\* category reference, no positive amount or no date, for a category (the
\* input with a type) no name
LacksRequiredField(item) ==
    IF item.type = "" THEN item.categoryId = 0 \/ item.amount <= 0 \/ item.date = ""
    ELSE item.name = ""

\* C13: a create whose input lacks a required field fails with a validation
\* error before anything is touched: the caller receives an error, no remote
\* call is issued, and the Local Store and the mode stay as they were.
C13_InvalidCreateFailsFast ==
    [][(/\ last' # last
        /\ last'.op = "create"
        /\ LacksRequiredField(last'.item))
            => (/\ last'.res = "error"
                /\ last'.err = "Missing required fields"
                /\ calls' = calls
                /\ collections' = collections
                /\ backendMode' = backendMode)]_vars

\* C14: among the named categories stored for one user no two have the same
\* name and the same type.
C14_CategoryNameTypeUnique ==
    \A k \in DOMAIN collections :
        k.kind = "categories" =>
            \A i, j \in 1..Len(collections[k]) :
                (/\ collections[k][i].name # ""
                 /\ collections[k][i].name = collections[k][j].name
                 /\ collections[k][i].type = collections[k][j].type) => i = j

\* C15: the ids of the transactions stored for one user are pairwise
\* distinct, whatever the clock read when they were created.
C15_LocalIdsDistinct ==
    \A k \in DOMAIN collections :
        k.kind \in {"incomes", "expenses"} =>
            \A i, j \in 1..Len(collections[k]) :
                collections[k][i].id = collections[k][j].id => i = j

\* the user id of the claim: the id of the stored user, its email when it
\* has no id, the sentinel offline identity when no user is stored
UserIdOf(user) ==
    IF user = NULL_USER THEN [id |-> MkId("offline_user", 0), email |-> ""]
    ELSE IF user.id # NoId THEN [id |-> user.id, email |-> ""]
    ELSE [id |-> NoId, email |-> user.email]

ResourceKinds == {"incomes", "expenses", "categories"}

Contains(list, rec) == \E i \in 1..Len(list) : list[i] = rec

\* the resumption of the createIncome of slot s after a refused connection
IncomeFallback(s) ==
    /\ Resumes(s)
    /\ calls[s].op = "createIncome"
    /\ last'.out = ERR_NETWORK

\* a list of the incomes served from the Local Store (SpecIncome has no
\* other list operation)
LocalIncomeList == last' # last /\ last'.step = "list" /\ last'.res = "local"

\* C20 as claimed: createIncome with valid fields against an unreachable
\* server returns one transaction with a locally generated id, the type
\* income and the submitted amount, which an income list in local mode for
\* the same user contains.
C20_OfflineCreateReturnsIncome ==
    [][/\ \A s \in Slots : IncomeFallback(s) =>
            /\ last'.res = "local"
            /\ Len(last'.data) = 1
            /\ last'.data[1].id = MkId("inc", now)
            /\ last'.data[1].type = "income"
            /\ last'.data[1].amount = calls[s].item.amount
            /\ Contains(getItem(collections', Key("incomes", currentUser)), last'.data[1])
       /\ LocalIncomeList =>
            last'.data = getItem(collections', Key("incomes", currentUser))
      ]_vars

\* C20 as amended: the returned transaction has a locally generated id and
\* the submitted fields, the amount among them, and no type of its own (the
\* input has none); it is stored in the user's incomes collection, and an
\* income list in local mode returns that collection whole.
C20_OfflineCreateReturnsRecord ==
    [][/\ \A s \in Slots : IncomeFallback(s) =>
            /\ last'.res = "local"
            /\ isOfflineMode(backendMode')
            /\ Len(last'.data) = 1
            /\ last'.data[1] = TxRecord(MkId("inc", now), calls[s].item)
            /\ last'.data[1].amount = calls[s].item.amount
            /\ last'.data[1].type = calls[s].item.type
            /\ Contains(getItem(collections', Key("incomes", currentUser)), last'.data[1])
       /\ LocalIncomeList =>
            last'.data = getItem(collections', Key("incomes", currentUser))
      ]_vars

\* the income created by the fallback has just been listed in local mode
C20_Witness ==
    /\ last.step = "list"
    /\ last.res = "local"
    /\ isOfflineMode(backendMode)
    /\ currentUser = ServerUser("a@x")
    /\ Len(last.data) >= 1
    /\ last.data[1].amount = 5000
    /\ last.data[1].id.p = "inc"

\* the array of the first of the four shapes, in the order bare array,
\* { kind: array }, { data: array }, { success, data: { kind: array } },
\* that holds an array; the empty collection when none does
FirstValidShape(body) ==
    IF body.t = "array" THEN body.items
    ELSE IF body.kindField.t = "array" THEN body.kindField.items
    ELSE IF body.dataField.t = "array" THEN body.dataField.items
    ELSE IF body.dataField.t = "object" /\ body.dataKindField.t = "array"
         THEN body.dataKindField.items
    ELSE << >>

\* C17: a list call the server answered successfully returns the array of
\* the first structurally valid shape of the body, and the empty collection,
\* without failing, when the body has none of the four shapes.
C17_NormalizerFirstValidShape ==
    (last.step = "list" /\ last.out = OK_RESPONSE)
        => (last.res = "remote" /\ last.data = FirstValidShape(last.body))

\* C16: the aggregate load delivers the three lists only when each of the
\* three list operations has returned one; once one of them has failed the
\* load has failed, and it has delivered neither lists nor the default
\* categories in their place
C16_AggregateAllOrNothing ==
    /\ aggregate.delivered # {} =>
            /\ aggregate.delivered = AggregateParts
            /\ \A k \in AggregateParts : aggregate.parts[k] = "data"
    /\ (\E k \in AggregateParts : aggregate.parts[k] = "error") =>
            /\ aggregate.st = "failed"
            /\ aggregate.delivered = {}
            /\ ~aggregate.substitute

\* the expenses call was rejected after incomes and categories had been
\* fetched, and the load failed
C16_Witness ==
    /\ aggregate.st = "failed"
    /\ aggregate.parts["incomes"] = "data"
    /\ aggregate.parts["categories"] = "data"
    /\ aggregate.parts["expenses"] = "error"
    /\ last.step = "list" /\ Rejected(last.out)

C21_CreatedCategoryListed ==
    [][(/\ created.store # "none"
        /\ created' = NoCreated
        /\ last'.step = "list"
        /\ last'.res = created.store
        /\ getUserId(currentUser') = created.uid) =>
            LET shown == categoriesWithColor(last'.data) IN
            \E i \in DOMAIN shown :
                /\ shown[i].name = created.item.name
                /\ shown[i].type = created.item.type
                /\ shown[i].color = IF created.item.color # ""
                                    THEN created.item.color ELSE paletteColor(i)]_vars

\* the categories of the user in the store in use, which are the ones the
\* pages show
UserCategories ==
    IF isOfflineMode(backendMode)
    THEN getItem(collections, Key("categories", currentUser))
    ELSE categoryRepository

\* the names of the user's categories in either store, the category the
\* server's incomes refer to among them
UserCategoryNames ==
    {UserCategories[i].name : i \in DOMAIN UserCategories} \cup {IncomeDTO(1).categoryName}

IsTransaction(record) == "categoryId" \in DOMAIN record

\* C23: a transaction the application is handed, from a list or from a
\* create whose category is one of the user's, carries in its category
\* field the name of one of the user's categories
C23_TransactionsCarryCategoryName ==
    /\ (last.step = "list" /\ last.res \in {"local", "remote"}) =>
            \A i \in DOMAIN last.data :
                IsTransaction(last.data[i]) =>
                    allTransactions_category(last.data[i]) \in UserCategoryNames
    /\ (/\ last.step = "create" /\ last.res \in {"local", "remote"}
        /\ chosenCategory(UserCategories, last.item.categoryId) # {}) =>
            newTransaction_category(UserCategories, last.item.categoryId) \in UserCategoryNames

\* what one run of the offline branch of an operation makes of a collection
OneLocalExecution(op, before, call, result) ==
    CASE OpClass(op) = "create" -> Append(before, result[1])
      [] OpClass(op) = "delete" -> filterOut(before, call.id)
      [] op = "fetchCategories" /\ before = << >> -> defaultCategories
      [] OTHER -> before

\* C24: a facade call in flight is the first and only remote attempt of its
\* operation, and when it ends the operation is over; an operation served
\* from the Local Store has run its offline branch once, on its own
\* collection only: a create has appended the one record it returns, a
\* delete has filtered the id out, a list has read
C24_OneAttemptOneLocalExecution ==
    [][\A s \in Slots :
        (/\ calls[s].st = "pending"
         /\ OpClass(calls[s].op) \in FacadeClasses
         /\ calls'[s] # calls[s]) =>
            LET k == Key(KindOf(calls[s].op), currentUser) IN
            /\ calls[s].attempts = 1
            /\ calls'[s].st = "idle"
            /\ last'.res = "local" =>
                /\ getItem(collections', k) =
                        OneLocalExecution(calls[s].op, getItem(collections, k), calls[s], last'.data)
                /\ \A x \in (DOMAIN collections \cup DOMAIN collections') \ {k} :
                        getItem(collections', x) = getItem(collections, x)]_vars

\* a delete whose remote call found no server has been served from the
\* Local Store, and no call of it is left in flight
C24_Witness ==
    /\ last.step = "delete"
    /\ last.out = ERR_NETWORK
    /\ last.res = "local"
    /\ \A s \in Slots : calls[s].st = "idle"

\* C25: when calls that are in flight together fail with NetworkUnavailable,
\* each failure leaves the mode local, whether it is the first to do so or
\* not, and the operation of each is served from the Local Store by one run
\* of its offline branch
C25_BurstFlipsOnceServesAll ==
    [][\A k \in AggregateParts :
        (/\ calls[PartSlot(k)].st = "pending"
         /\ calls'[PartSlot(k)].st = "idle"
         /\ last'.step = "list"
         /\ NetworkUnavailable(last'.out)) =>
            /\ isOfflineMode(backendMode')
            /\ last'.res = "local"
            /\ collections' = localFetch(k, collections, currentUser)]_vars

Records(list) == {list[i] : i \in DOMAIN list}

\* C26: whatever else is in flight, a local create leaves the record it
\* returns in the stored collection, and a stored record stays stored in
\* every step but a local delete, which removes the records of one id
C26_NoLostUpdate ==
    [][/\ (last'.step = "create" /\ last'.res = "local" /\ last' # last) =>
            last'.data[1] \in Records(getItem(collections', Key("incomes", currentUser)))
       /\ \A k \in DOMAIN collections :
            \A r \in Records(collections[k]) :
                \/ r \in Records(getItem(collections', k))
                \/ /\ last'.step = "delete" /\ last'.res = "local"
                   /\ getItem(collections', k) = filterOut(collections[k], r.id)]_vars

\* two incomes in the collection, the second created by the fallback of a
\* call that was in flight while another operation ran
C26_Witness ==
    /\ Len(getItem(collections, Key("incomes", currentUser))) = 2
    /\ last.step = "create" /\ last.res = "local" /\ last.out = ERR_NETWORK
    /\ \E s \in BurstSlots : calls[s].st = "pending"

\* C27: a list operation, called on its own or by the load of the user's
\* data, leaves every Local Store collection as it was
C27_ListsLeaveStoreUnchanged ==
    [][(last' # last /\ last'.step \in {"list", "loadUserData"}) =>
            collections' = collections]_vars

\* C27 as amended: a list leaves every collection as it was, but for the
\* categories of the user when none are stored and the list is served from
\* the Local Store, which then holds the default categories
C27_ListsOnlySeedDefaults ==
    [][(last' # last /\ last'.step \in {"list", "loadUserData"}) =>
            \/ collections' = collections
            \/ /\ last'.res = "local"
               /\ getItem(collections, Key("categories", currentUser)) = << >>
               /\ collections' =
                    setItem(collections, Key("categories", currentUser), defaultCategories)]_vars

\* the load of the user's data was served from the Local Store and the
\* collection of categories, empty before, holds the defaults
C27_Witness ==
    /\ last.step = "loadUserData"
    /\ last.res = "local"
    /\ getItem(collections, Key("categories", currentUser)) = defaultCategories

\* C28: a step in which a facade operation hands its caller an error does
\* not take the mode from remote to local
C28_NoFlipWithoutLocalService ==
    [][(last' # last /\ last'.step \in FacadeClasses /\ last'.res = "error") =>
            ~(~isOfflineMode(backendMode) /\ isOfflineMode(backendMode'))]_vars

\* C29: when the load of the user's data has delivered its three lists, the
\* three were served by the same store
C29_AggregateFromOneStore ==
    aggregate.delivered # {} =>
        \A j, k \in AggregateParts : aggregate.from[j] = aggregate.from[k]

UniqueEmails(list) ==
    \A i, j \in 1..Len(list) : list[i].email = list[j].email => i = j

\* the call of slot s, a login or a registration, found no server and the
\* handler went on with the Local Store
OfflineAuth(s, op) ==
    /\ Resumes(s)
    /\ calls[s].op = op
    /\ NetworkUnavailable(last'.out)

====
